---- MODULE Spec2Model ----
(***************************************************************************)
(* DubboServer (packages/dubbo-service/src/dubbo-server.ts): listener      *)
(* lifecycle with bounded port retry, registration with the registry,      *)
(* per-connection frame handling and the koa-style middleware chain.       *)
(*                                                                         *)
(* One action is one turn of the event loop: a callback, or the            *)
(* continuation of an async function from one real suspension to the next. *)
(***************************************************************************)
EXTENDS Integers, Sequences, FiniteSets, TLC

(***************************************************************************)
(* Bounds                                                                  *)
(***************************************************************************)
\* retry budget of the Retry container (maximum consecutive bind failures retried)
MaxRetry == 1
\* frames delivered over all connections
MaxFrames == 2
\* middleware admitted by use()
MaxMiddlewares == 2
\* calls of close()
MaxClose == 2

Ports == {20880, 20881}
Sockets == {1}

(***************************************************************************)
(* DUBBO_RESPONSE_STATUS and the values a context body takes               *)
(***************************************************************************)
OK == "OK"
SERVICE_NOT_FOUND == "SERVICE_NOT_FOUND"
SERVER_ERROR == "SERVER_ERROR"

NoRegistryError == "Error: Please specify registry, use Zk or Nacos init registry"
NoServiceError == "Error: Please specify dubbo service"
NoPortError == "Error: Oops, dubbo server can not start, can not find available port"
ServiceNotFoundError == "Error: Service not found"
NotHessianError == "Error: return value not hessian type"
ThisUndefinedError == "TypeError: Cannot set property 'body' of undefined"
MethodError == "Error: boom"
MiddlewareError == "Error: middleware"
Undefined == "undefined"

(***************************************************************************)
(* props.services: the configured service map, in Object.entries order.    *)
(* A method is described by what it does when called: it returns its       *)
(* argument, returns a value that is not a hessian value, or throws; and   *)
(* it does so at once or after a real suspension (slow).                   *)
(***************************************************************************)
Method(result, slow) == [result |-> result, slow |-> slow]

EchoMethods ==
    [say |-> Method("echo", FALSE), boom |-> Method("throw", FALSE),
     raw |-> Method("nothessian", FALSE), slowSay |-> Method("echo", TRUE)]

\* methodNames is Object.keys(methods), in insertion order
Services ==
    << [shortName |-> "echo",  dubboInterface |-> "Echo", methods |-> EchoMethods,
        methodNames |-> << "say", "boom", "raw", "slowSay" >>],
       [shortName |-> "echo2", dubboInterface |-> "Echo",
        methods |-> [say |-> Method("echo", FALSE)], methodNames |-> << "say" >>],
       [shortName |-> "calc",  dubboInterface |-> "Calc",
        methods |-> [add |-> Method("echo", FALSE)], methodNames |-> << "add" >>] >>

Interfaces == {Services[i].dubboInterface : i \in 1..Len(Services)}

\* props.registry: a registry object, or missing
RegistryProps == {"registry", Undefined}
\* props.services: the service map above, a map without entries ({}), or missing
ServicesProps == {"services", "empty", Undefined}

\* Object.entries(services) of a service map
entries(services) == IF services = "services" THEN Services ELSE << >>

\* props.dubboSetting: absent, or a lookup from the short name to group/version
DefaultMeta == [group |-> "", version |-> "0.0.0"]

SettingTable ==
    [echo |-> [group |-> "", version |-> "1.0.0"],
     echo2 |-> [group |-> "g", version |-> "0.0.0"],
     calc |-> [group |-> "", version |-> "0.0.0"]]

DubboSettings == {"none", "table"}

getDubboSetting(shortName) == SettingTable[shortName]

VARIABLES
    props,          \* the argument of new DubboServer(props): [registry, services]
    created,        \* the constructor has returned an instance
    thrown,         \* the error last thrown synchronously to the caller
    dubboSetting,   \* this.dubboSetting: "none" or "table"
    readyPromise,   \* this.readyPromise: [state, reason]
    tickPending,    \* the process.nextTick(listen) of the constructor is queued
    retryNum,       \* Retry: consecutive failures counted so far
    retryTimers,    \* Retry: retry() calls scheduled and not yet run
    exhausted,      \* Retry: end() has been called
    attempts,       \* one record per listen() call: [pc, port, bound]
    port,           \* this.port (0 before the first assignment)
    server,         \* this.server: index into attempts of the net.Server, 0 = undefined
    regs,           \* one entry per registerServices() call: its position
    unhandled,      \* promise rejections nobody handles
    registry,       \* the registry collaborator: [readyCalls, announced, closed]
    serviceRouter,  \* this.serviceRouter: interface -> sequence of descriptors
    middlewares,    \* this.middlewares
    sockets,        \* socket -> "none" | "open" | "closed"
    hbAcks,         \* socket -> heartbeat.emit() calls
    written,        \* socket -> sequence of frame ids whose response was written
    frames,         \* one record per frame handed to the subscribe callback
    closes          \* one record per close() call: [state, err, on]

vars == << props, created, thrown, dubboSetting, readyPromise, tickPending, retryNum, retryTimers, exhausted,
           attempts, port, server, regs, unhandled, registry, serviceRouter,
           middlewares, sockets, hbAcks, written, frames, closes >>

callerVars == << props, created, thrown >>
lifecycleVars == << readyPromise, tickPending, retryNum, retryTimers, exhausted,
                    attempts, port, server, regs, unhandled, registry, serviceRouter >>
connVars == << sockets, hbAcks, written, frames >>
useVars == << middlewares >>

(***************************************************************************)
(* new DubboServer(props) with valid props                                 *)
(***************************************************************************)
Init ==
    /\ props = [registry |-> "registry", services |-> "services"]
    /\ created = TRUE
    /\ thrown = Undefined
    /\ dubboSetting \in DubboSettings
    /\ readyPromise = [state |-> "pending", reason |-> Undefined]
    /\ tickPending = TRUE
    /\ retryNum = 0
    /\ retryTimers = 0
    /\ exhausted = FALSE
    /\ attempts = << >>
    /\ port = 0
    /\ server = 0
    /\ regs = << >>
    /\ unhandled = 0
    /\ registry = [readyCalls |-> 0, announced |-> << >>, closed |-> 0]
    /\ serviceRouter = [i \in Interfaces |-> << >>]
    /\ middlewares = << >>
    /\ sockets = [s \in Sockets |-> "none"]
    /\ hbAcks = [s \in Sockets |-> 0]
    /\ written = [s \in Sockets |-> << >>]
    /\ frames = << >>
    /\ closes = << >>

(***************************************************************************)
(* new DubboServer(props) with any props                                   *)
(***************************************************************************)
\* util.isObj(val): val is an object; a map without entries is one
isObj(val) == val # Undefined

\* checkProps(props): the error it throws, Undefined when it returns
checkProps(p) ==
    IF ~isObj(p.registry) THEN NoRegistryError
    ELSE IF ~isObj(p.services) THEN NoServiceError
    ELSE Undefined

\* the constructor: checkProps, the fields, process.nextTick(listen)
Constructor ==
    /\ ~created
    /\ thrown = Undefined
    /\ IF checkProps(props) # Undefined
       THEN /\ thrown' = checkProps(props)
            /\ UNCHANGED << created, readyPromise, serviceRouter, middlewares,
                            retryNum, retryTimers, exhausted, tickPending >>
       ELSE /\ created' = TRUE
            /\ readyPromise' = [state |-> "pending", reason |-> Undefined]
            /\ serviceRouter' = [i \in Interfaces |-> << >>]
            /\ middlewares' = << >>
            /\ retryNum' = 0
            /\ retryTimers' = 0
            /\ exhausted' = FALSE
            /\ tickPending' = TRUE
            /\ UNCHANGED thrown
    /\ UNCHANGED << props, dubboSetting, attempts, port, server, regs, unhandled,
                    registry, connVars, closes >>

(***************************************************************************)
(* The readiness promise: settling a settled promise changes nothing       *)
(***************************************************************************)
resolve(p) == IF p.state = "pending" THEN [p EXCEPT !.state = "resolved"] ELSE p

reject(p, err) ==
    IF p.state = "pending" THEN [state |-> "rejected", reason |-> err] ELSE p

(***************************************************************************)
(* listen(): the call up to `await randomPort()`                           *)
(***************************************************************************)
listenStart == Append(attempts, [pc |-> "randomPort", port |-> 0, bound |-> FALSE])

\* process.nextTick(() => this.listen())
NextTickListen ==
    /\ tickPending
    /\ tickPending' = FALSE
    /\ attempts' = listenStart
    /\ UNCHANGED << callerVars, dubboSetting, readyPromise, retryNum, retryTimers, exhausted, port,
                    server, regs, unhandled, registry, serviceRouter >>
    /\ UNCHANGED << connVars, useVars, closes >>

\* Retry: the scheduled retry() runs, which is () => this.listen()
RetryTimerFire ==
    /\ retryTimers > 0
    /\ retryTimers' = retryTimers - 1
    /\ attempts' = listenStart
    /\ UNCHANGED << callerVars, dubboSetting, readyPromise, tickPending, retryNum, exhausted, port,
                    server, regs, unhandled, registry, serviceRouter >>
    /\ UNCHANGED << connVars, useVars, closes >>

\* listen() keeping the port of the first attempt
ListenBind_KeepFirstPort(a, p, ok) ==
    /\ attempts[a].pc = "randomPort"
    /\ port' = IF port = 0 THEN p ELSE port
    /\ server' = a
    /\ attempts' = [attempts EXCEPT ![a] = [pc |-> "binding", port |-> p, bound |-> ok]]
    /\ UNCHANGED << callerVars, dubboSetting, readyPromise, tickPending, retryNum, retryTimers,
                    exhausted, regs, unhandled, registry, serviceRouter >>
    /\ UNCHANGED << connVars, useVars, closes >>

\* listen() resumes with the port: this.port is set, the net.Server is created and
\* listen(port) is called on it. The bind succeeds or fails; the server reports it
\* later with 'listening' or 'error'.
ListenBind(a, p, ok) ==
    /\ attempts[a].pc = "randomPort"
    /\ port' = p
    /\ server' = a
    /\ attempts' = [attempts EXCEPT ![a] = [pc |-> "binding", port |-> p, bound |-> ok]]
    /\ UNCHANGED << callerVars, dubboSetting, readyPromise, tickPending, retryNum, retryTimers,
                    exhausted, regs, unhandled, registry, serviceRouter >>
    /\ UNCHANGED << connVars, useVars, closes >>

\* registerServices() up to `await this.registry.ready()`
registerServicesStart ==
    /\ regs' = Append(regs, "awaitReady")
    /\ registry' = [registry EXCEPT !.readyCalls = @ + 1]

\* the callback of listen(port, cb): resolve(), retry.reset(), registerServices()
Listening(a) ==
    /\ attempts[a].pc = "binding"
    /\ attempts[a].bound
    /\ attempts' = [attempts EXCEPT ![a].pc = "listening"]
    /\ readyPromise' = resolve(readyPromise)
    /\ retryNum' = 0
    /\ registerServicesStart
    /\ UNCHANGED << callerVars, dubboSetting, tickPending, retryTimers, exhausted, port, server,
                    unhandled, serviceRouter >>
    /\ UNCHANGED << connVars, useVars, closes >>

\* Retry.start(): below the budget it counts one more failure and schedules
\* retry(); at the budget it calls end(), whose throw leaves start()
RetryStart ==
    IF retryNum < MaxRetry
    THEN [retryNum |-> retryNum + 1, retryTimers |-> retryTimers + 1,
          exhausted |-> exhausted, thrown |-> Undefined]
    ELSE [retryNum |-> retryNum, retryTimers |-> retryTimers,
          exhausted |-> TRUE, thrown |-> NoPortError]

\* the error handler scheduling a retry although end() has thrown
ListenError_RetryAfterEnd(a) ==
    /\ attempts[a].pc = "binding"
    /\ ~attempts[a].bound
    /\ attempts' = [attempts EXCEPT ![a] = [pc |-> "failed", port |-> 0, bound |-> FALSE]]
    /\ LET r == RetryStart IN
        /\ retryNum' = r.retryNum
        /\ retryTimers' = retryTimers + 1
        /\ exhausted' = r.exhausted
        /\ readyPromise' =
            IF r.thrown # Undefined THEN reject(readyPromise, r.thrown) ELSE readyPromise
    /\ UNCHANGED << callerVars, dubboSetting, tickPending, port, server, regs, unhandled, registry,
                    serviceRouter >>
    /\ UNCHANGED << connVars, useVars, closes >>

\* the error handler starting the retry twice
ListenError_StartTwice(a) ==
    /\ attempts[a].pc = "binding"
    /\ ~attempts[a].bound
    /\ attempts' = [attempts EXCEPT ![a] = [pc |-> "failed", port |-> 0, bound |-> FALSE]]
    /\ LET r == RetryStart IN
        /\ retryNum' = r.retryNum
        /\ retryTimers' = IF r.thrown = Undefined THEN retryTimers + 2 ELSE retryTimers
        /\ exhausted' = r.exhausted
        /\ readyPromise' =
            IF r.thrown # Undefined THEN reject(readyPromise, r.thrown) ELSE readyPromise
    /\ UNCHANGED << callerVars, dubboSetting, tickPending, port, server, regs, unhandled, registry,
                    serviceRouter >>
    /\ UNCHANGED << connVars, useVars, closes >>

\* the error handler with a catch block that drops the error of end()
ListenError_NoReject(a) ==
    /\ attempts[a].pc = "binding"
    /\ ~attempts[a].bound
    /\ attempts' = [attempts EXCEPT ![a] = [pc |-> "failed", port |-> 0, bound |-> FALSE]]
    /\ LET r == RetryStart IN
        /\ retryNum' = r.retryNum
        /\ retryTimers' = r.retryTimers
        /\ exhausted' = r.exhausted
        /\ readyPromise' = readyPromise
    /\ UNCHANGED << callerVars, dubboSetting, tickPending, port, server, regs, unhandled, registry,
                    serviceRouter >>
    /\ UNCHANGED << connVars, useVars, closes >>

\* .on('error', ...): try { this.retry.start() } catch (err) { this.reject(err) }.
\* The net.Server that failed holds no port any more.
ListenError(a) ==
    /\ attempts[a].pc = "binding"
    /\ ~attempts[a].bound
    /\ attempts' = [attempts EXCEPT ![a] = [pc |-> "failed", port |-> 0, bound |-> FALSE]]
    /\ LET r == RetryStart IN
        /\ retryNum' = r.retryNum
        /\ retryTimers' = r.retryTimers
        /\ exhausted' = r.exhausted
        /\ readyPromise' =
            IF r.thrown # Undefined THEN reject(readyPromise, r.thrown) ELSE readyPromise
    /\ UNCHANGED << callerVars, dubboSetting, tickPending, port, server, regs, unhandled, registry,
                    serviceRouter >>
    /\ UNCHANGED << connVars, useVars, closes >>

(***************************************************************************)
(* registerServices() after `await this.registry.ready()`                  *)
(***************************************************************************)
\* the meta of one service: the setting lookup, or the default without one
metaOf(svc) ==
    IF dubboSetting # "none" THEN getDubboSetting(svc.shortName) ELSE DefaultMeta

\* service.group = meta.group; service.version = meta.version
describe(svc) ==
    [shortName |-> svc.shortName, dubboInterface |-> svc.dubboInterface,
     methods |-> svc.methods, methodNames |-> svc.methodNames,
     group |-> metaOf(svc).group, version |-> metaOf(svc).version]

\* buildUrl(service): dubbo://<ip>:<port>/<interface>?<query>, the query being the
\* keys and values handed to qs.stringify, in order
buildUrl(d) ==
    [scheme |-> "dubbo", host |-> "ip.address()", port |-> port,
     path |-> d.dubboInterface,
     query |-> << << "group", d.group >>, << "version", d.version >>,
                  << "method", d.methodNames >>, << "side", "provider" >>,
                  << "pid", "process.pid" >>, << "generic", "false" >>,
                  << "protocal", "dubbo" >>, << "dynamic", "true" >>,
                  << "category", "providers" >>, << "anyhost", "true" >>,
                  << "timestamp", "Date.now()" >> >>]

\* the loop leaving out the last entry
RECURSIVE registerLoop_DropsLast(_, _, _)
registerLoop_DropsLast(router, list, i) ==
    IF i >= Len(entries(props.services)) THEN [router |-> router, list |-> list]
    ELSE LET d == describe(entries(props.services)[i]) IN
         registerLoop_DropsLast([router EXCEPT ![d.dubboInterface] = Append(@, d)],
                                Append(list, [dubboServiceInterface |-> d.dubboInterface,
                                              dubboServiceUrl |-> buildUrl(d)]),
                                i + 1)

\* the loop over Object.entries(this.services), from entry i on: the router and
\* the list it leaves
RECURSIVE registerLoop(_, _, _)
registerLoop(router, list, i) ==
    IF i > Len(entries(props.services)) THEN [router |-> router, list |-> list]
    ELSE LET d == describe(entries(props.services)[i]) IN
         registerLoop([router EXCEPT ![d.dubboInterface] = Append(@, d)],
                      Append(list, [dubboServiceInterface |-> d.dubboInterface,
                                    dubboServiceUrl |-> buildUrl(d)]),
                      i + 1)

\* registry.ready() resolved: the loop, then one registyServices(list)
RegistryReadyOk(k) ==
    /\ regs[k] = "awaitReady"
    /\ LET r == registerLoop(serviceRouter, << >>, 1) IN
        /\ serviceRouter' = r.router
        /\ registry' = [registry EXCEPT !.announced = Append(@, r.list)]
    /\ regs' = [regs EXCEPT ![k] = "done"]
    /\ UNCHANGED << callerVars, dubboSetting, readyPromise, tickPending, retryNum, retryTimers,
                    exhausted, attempts, port, server, unhandled >>
    /\ UNCHANGED << connVars, useVars, closes >>

\* registry.ready() rejected: the catch rethrows, registerServices() rejects, and
\* the listening callback dropped that promise
RegistryReadyFail(k) ==
    /\ regs[k] = "awaitReady"
    /\ regs' = [regs EXCEPT ![k] = "rejected"]
    /\ unhandled' = unhandled + 1
    /\ UNCHANGED << callerVars, dubboSetting, readyPromise, tickPending, retryNum, retryTimers,
                    exhausted, attempts, port, server, registry, serviceRouter >>
    /\ UNCHANGED << connVars, useVars, closes >>

(***************************************************************************)
(* close()                                                                 *)
(***************************************************************************)
\* whether the net.Server of attempt a holds a listening handle
hasHandle(a) ==
    \/ attempts[a].pc = "listening"
    \/ attempts[a].pc = "binding" /\ attempts[a].bound

\* close(): registry.close(), then this.server?.close(cb). Without a server no
\* callback is registered anywhere. A server with a handle closes it and calls
\* cb() on its 'close' event; a server without one calls cb(ERR_SERVER_NOT_RUNNING).
Close ==
    /\ Len(closes) < MaxClose
    /\ registry' = [registry EXCEPT !.closed = @ + 1]
    /\ IF server = 0
       THEN /\ closes' = Append(closes, [state |-> "pending", on |-> 0, err |-> FALSE])
            /\ attempts' = attempts
       ELSE /\ closes' = Append(closes, [state |-> "pending", on |-> server,
                                         err |-> ~hasHandle(server)])
            /\ attempts' = IF hasHandle(server)
                           THEN [attempts EXCEPT ![server].pc = "closing"]
                           ELSE attempts
    /\ UNCHANGED << callerVars, dubboSetting, readyPromise, tickPending, retryNum, retryTimers,
                    exhausted, port, server, regs, unhandled, serviceRouter >>
    /\ UNCHANGED << connVars, useVars >>

\* the 'close' event of the net.Server of attempt a: once its connections have
\* ended, every callback close() registered on it runs
CloseEvent(a) ==
    /\ \E c \in 1..Len(closes) : closes[c].on = a /\ closes[c].state = "pending"
    /\ attempts[a].pc = "closing" => \A s \in Sockets : sockets[s] # "open"
    /\ attempts' = IF attempts[a].pc = "closing"
                   THEN [attempts EXCEPT ![a].pc = "closed"] ELSE attempts
    /\ closes' = [c \in 1..Len(closes) |->
                    IF closes[c].on = a /\ closes[c].state = "pending"
                    THEN [closes[c] EXCEPT
                            !.state = IF closes[c].err THEN "rejected" ELSE "resolved"]
                    ELSE closes[c]]
    /\ UNCHANGED << callerVars, dubboSetting, readyPromise, tickPending, retryNum, retryTimers,
                    exhausted, port, server, regs, unhandled, registry, serviceRouter >>
    /\ UNCHANGED << connVars, useVars >>

(***************************************************************************)
(* use(fn)                                                                 *)
(***************************************************************************)
\* what a middleware does: "next" awaits next(); "slow" suspends, then awaits
\* next(); "skip" returns without next(); "throw" throws before next()
MiddlewareKinds == {"next", "slow", "skip", "throw"}

\* use(fn) putting fn in front of the list
Use_Prepend(fn) ==
    /\ Len(middlewares) < MaxMiddlewares
    /\ middlewares' = << fn >> \o middlewares
    /\ UNCHANGED << callerVars, dubboSetting, lifecycleVars, connVars, closes >>

Use(fn) ==
    /\ Len(middlewares) < MaxMiddlewares
    /\ middlewares' = Append(middlewares, fn)
    /\ UNCHANGED << callerVars, dubboSetting, lifecycleVars, connVars, closes >>

NotFunctionError == "TypeError: middleware must be a function"

\* use(fn) with typeof fn != 'function': the throw comes before the push
UseNotFunction ==
    /\ thrown' = NotFunctionError
    /\ UNCHANGED << props, created, dubboSetting, lifecycleVars, connVars, useVars,
                    closes >>

(***************************************************************************)
(* Connections: handleSocketRequest and the subscribe callback             *)
(***************************************************************************)
Request(path, methodName, group, version) ==
    [path |-> path, methodName |-> methodName, group |-> group, version |-> version,
     arg |-> "hi"]

\* the requests a client sends; an attachment may lack its group
Requests ==
    { Request("Echo", "say", "", "0.0.0"),
      Request("Echo", "say", "", "9.9.9"),
      Request("Echo", "boom", Undefined, "*"),
      Request("Echo", "raw", "", "*"),
      Request("Echo", "slowSay", "", "*") }

HeartBeatFrame == [heartbeat |-> TRUE, request |-> Request("", "", "", "")]
RequestFrame(r) == [heartbeat |-> FALSE, request |-> r]
Frames == {HeartBeatFrame} \cup {RequestFrame(r) : r \in Requests}

\* HeartBeat.isHeartBeat(data)
isHeartBeat(data) == data.heartbeat

\* decodeDubboRequest(data)
decodeDubboRequest(data) == data.request

NoService ==
    [shortName |-> Undefined, dubboInterface |-> Undefined, methods |-> << >>,
     methodNames |-> << >>, group |-> Undefined, version |-> Undefined]

\* the callback of find(): the method is in the table, the group is the same and
\* the version is the same or '*' was asked for
isMatch_AnyVersion(s, request) ==
    LET group == IF request.group = Undefined THEN "" ELSE request.group
    IN request.methodName \in DOMAIN s.methods /\ group = s.group

isMatch(s, request) ==
    LET group == IF request.group = Undefined THEN "" ELSE request.group
        version == IF request.version = Undefined THEN "0.0.0" ELSE request.version
        isSameVersion == version = "*" \/ s.version = version
        isSameGroup == group = s.group
    IN request.methodName \in DOMAIN s.methods /\ isSameGroup /\ isSameVersion

\* serviceList.find(...) from index i on: the first element that matches, or
\* undefined
RECURSIVE find(_, _, _)
find(serviceList, i, request) ==
    IF i > Len(serviceList) THEN NoService
    ELSE IF isMatch(serviceList[i], request) THEN serviceList[i]
         ELSE find(serviceList, i + 1, request)

\* matchService(request): the first descriptor under the path with the method,
\* the group and the version; group defaults to '', version to '0.0.0'
matchService(request) ==
    LET serviceList == IF request.path \in DOMAIN serviceRouter
                       THEN serviceRouter[request.path] ELSE << >>
    IN find(serviceList, 1, request)

\* new Context(request), and what the handling of one frame has done so far
Context(id, socket, data) ==
    [id |-> id, socket |-> socket, data |-> data,
     pc |-> "callback", idx |-> 0, outcome |-> "running", err |-> Undefined,
     acked |-> FALSE, decoded |-> FALSE, routed |-> FALSE, service |-> NoService,
     chain |-> << >>, entered |-> << >>, methodCalls |-> 0,
     status |-> Undefined, body |-> Undefined, responded |-> FALSE]

\* the receiver koa-compose gives a middleware: it calls fn(context, next), and
\* in strict code a plain call has no receiver
HandleRequestThis == Undefined

\* `this.body = v` inside handleRequest
assignBody(c, v) ==
    CASE HandleRequestThis = Undefined ->
            [c EXCEPT !.outcome = "threw", !.err = ThisUndefinedError]
      [] HandleRequestThis = "ctx" -> [c EXCEPT !.body = v, !.outcome = "ok"]
      [] OTHER -> [c EXCEPT !.outcome = "ok"]

\* handleRequest from the point where `await method.apply(...)` settles: the rest
\* of the try block, and the catch block for what the try block throws
methodSettled(c) ==
    LET method == c.service.methods[c.data.request.methodName]
        tried == CASE method.result = "throw" ->
                        [c EXCEPT !.outcome = "threw", !.err = MethodError]
                   [] method.result = "nothessian" ->
                        [c EXCEPT !.outcome = "threw", !.err = NotHessianError]
                   [] OTHER -> assignBody(c, c.data.request.arg)
    IN IF tried.outcome = "threw"
       THEN assignBody([tried EXCEPT !.outcome = "running"], tried.err)
       ELSE tried

\* handleRequest, the last middleware: ctx.status = OK, then the method is called
handleRequest(c) ==
    LET method == c.service.methods[c.data.request.methodName]
        called == [c EXCEPT !.status = OK, !.methodCalls = @ + 1]
    IN IF method.slow THEN [called EXCEPT !.pc = "method"] ELSE methodSettled(called)

\* compose(middlewares): dispatch(i) enters middleware i; past the last one the
\* chain is over. A middleware that awaits next() passes on what next() throws.
RECURSIVE dispatch(_, _)
dispatch(c, i) ==
    IF i > Len(c.chain) THEN handleRequest(c)
    ELSE LET e == [c EXCEPT !.entered = Append(@, i)] IN
         CASE c.chain[i] = "next" -> dispatch(e, i + 1)
           [] c.chain[i] = "slow" -> [e EXCEPT !.pc = "middleware", !.idx = i]
           [] c.chain[i] = "skip" -> [e EXCEPT !.outcome = "ok"]
           [] OTHER -> [e EXCEPT !.outcome = "threw", !.err = MiddlewareError]

\* invokeComposeChainRequest without the try/catch around `await fn(ctx)`
chainSettled_NoCatch(c) ==
    IF c.outcome = "running" THEN c ELSE [c EXCEPT !.pc = "return"]

\* invokeComposeChainRequest letting what `await fn(ctx)` throws escape: the
\* subscribe callback rejects before it writes
chainSettled_Rethrow(c) ==
    IF c.outcome = "running" THEN c
    ELSE IF c.outcome = "threw"
         THEN [c EXCEPT !.pc = "rejected"]
         ELSE [c EXCEPT !.pc = "return"]

\* invokeComposeChainRequest after `await fn(ctx)` settles: the catch block, and
\* the context is returned
chainSettled(c) ==
    IF c.outcome = "running" THEN c
    ELSE IF c.outcome = "threw"
         THEN [c EXCEPT !.status = SERVER_ERROR, !.body = c.err, !.pc = "return"]
         ELSE [c EXCEPT !.pc = "return"]

\* invokeComposeChainRequest answering a missing service with the wrong status
invokeComposeChainRequest_WrongStatus(c) ==
    LET request == decodeDubboRequest(c.data)
        service == matchService(request)
        ctx == [c EXCEPT !.decoded = TRUE, !.routed = TRUE, !.service = service]
    IN IF service = NoService
       THEN [ctx EXCEPT !.status = SERVER_ERROR, !.body = ServiceNotFoundError,
                        !.pc = "return"]
       ELSE chainSettled(dispatch([ctx EXCEPT !.chain = middlewares], 1))

\* invokeComposeChainRequest(data) up to its first suspension
invokeComposeChainRequest(c) ==
    LET request == decodeDubboRequest(c.data)
        service == matchService(request)
        ctx == [c EXCEPT !.decoded = TRUE, !.routed = TRUE, !.service = service]
    IN IF service = NoService
       THEN [ctx EXCEPT !.status = SERVICE_NOT_FOUND, !.body = ServiceNotFoundError,
                        !.pc = "return"]
       ELSE chainSettled(dispatch([ctx EXCEPT !.chain = middlewares], 1))

\* the subscribe callback without the heartbeat test
subscribeCallback_NoHeartBeatTest(c) == invokeComposeChainRequest(c)

\* the subscribe callback: a heartbeat is answered and nothing else happens
subscribeCallback(c) ==
    IF isHeartBeat(c.data) THEN [c EXCEPT !.acked = TRUE, !.pc = "done"]
    ELSE invokeComposeChainRequest(c)

\* after `await this.invokeComposeChainRequest(data)`: heartbeat.setWriteTimestamp()
\* and socket.write(...); a socket that is gone takes no bytes
respond(c) ==
    /\ frames' = [frames EXCEPT ![c.id] =
                    IF c.pc = "return" THEN [c EXCEPT !.pc = "done", !.responded = TRUE]
                    ELSE c]
    /\ written' = IF c.pc = "return" /\ sockets[c.socket] = "open"
                  THEN [written EXCEPT ![c.socket] = Append(@, c.id)]
                  ELSE written

\* net.createServer(this.handleSocketRequest): a client connects
Accept(s) ==
    /\ sockets[s] = "none"
    /\ \E a \in 1..Len(attempts) : attempts[a].pc = "listening"
    /\ sockets' = [sockets EXCEPT ![s] = "open"]
    /\ UNCHANGED << callerVars, dubboSetting, lifecycleVars, useVars, closes, hbAcks, written,
                    frames >>

\* the peer ends the connection, or the heartbeat's onTimeout destroys the socket
SocketClose(s) ==
    /\ sockets[s] = "open"
    /\ sockets' = [sockets EXCEPT ![s] = "closed"]
    /\ UNCHANGED << callerVars, dubboSetting, lifecycleVars, useVars, closes, hbAcks, written,
                    frames >>

\* DecodeBuffer hands one frame to the subscribe callback
Deliver(s, data) ==
    /\ sockets[s] = "open"
    /\ Len(frames) < MaxFrames
    /\ LET id == Len(frames) + 1
           c == subscribeCallback(Context(id, s, data))
       IN /\ hbAcks' = [hbAcks EXCEPT ![s] = IF c.acked THEN @ + 1 ELSE @]
          /\ IF c.pc = "return"
             THEN /\ frames' = Append(frames, [c EXCEPT !.pc = "done", !.responded = TRUE])
                  /\ written' = [written EXCEPT ![s] = Append(@, id)]
             ELSE /\ frames' = Append(frames, c)
                  /\ written' = written
    /\ UNCHANGED << callerVars, dubboSetting, lifecycleVars, useVars, closes, sockets >>

\* a suspended middleware resumes and awaits next()
MiddlewareResume(id) ==
    /\ frames[id].pc = "middleware"
    /\ respond(chainSettled(dispatch([frames[id] EXCEPT !.pc = "callback"],
                                     frames[id].idx + 1)))
    /\ UNCHANGED << callerVars, dubboSetting, lifecycleVars, useVars, closes, sockets, hbAcks >>

\* the promise of a suspended method settles
MethodResume(id) ==
    /\ frames[id].pc = "method"
    /\ respond(chainSettled(methodSettled([frames[id] EXCEPT !.pc = "callback"])))
    /\ UNCHANGED << callerVars, dubboSetting, lifecycleVars, useVars, closes, sockets, hbAcks >>

Next ==
    \/ NextTickListen
    \/ RetryTimerFire
    \/ \E a \in 1..Len(attempts), p \in Ports, ok \in BOOLEAN : ListenBind(a, p, ok)
    \/ \E a \in 1..Len(attempts) : Listening(a)
    \/ \E a \in 1..Len(attempts) : ListenError(a)
    \/ \E k \in 1..Len(regs) : RegistryReadyOk(k)
    \/ \E k \in 1..Len(regs) : RegistryReadyFail(k)
    \/ Close
    \/ \E a \in 1..Len(attempts) : CloseEvent(a)
    \/ \E fn \in MiddlewareKinds : Use(fn)
    \/ \E s \in Sockets : Accept(s)
    \/ \E s \in Sockets : SocketClose(s)
    \/ \E s \in Sockets, data \in Frames : Deliver(s, data)
    \/ \E id \in 1..Len(frames) : MiddlewareResume(id)
    \/ \E id \in 1..Len(frames) : MethodResume(id)

Spec == Init /\ [][Next]_vars

\* the server without traffic: clients connect and leave, but send no frame, and
\* use() is not called
LifecycleNext ==
    \/ NextTickListen
    \/ RetryTimerFire
    \/ \E a \in 1..Len(attempts), p \in Ports, ok \in BOOLEAN : ListenBind(a, p, ok)
    \/ \E a \in 1..Len(attempts) : Listening(a)
    \/ \E a \in 1..Len(attempts) : ListenError(a)
    \/ \E k \in 1..Len(regs) : RegistryReadyOk(k)
    \/ \E k \in 1..Len(regs) : RegistryReadyFail(k)
    \/ Close
    \/ \E a \in 1..Len(attempts) : CloseEvent(a)
    \/ \E s \in Sockets : Accept(s)
    \/ \E s \in Sockets : SocketClose(s)

LifecycleSpec == Init /\ [][LifecycleNext]_vars

\* the program before construction, with any props; nothing of the instance
\* exists and nothing is queued
ConstructInit ==
    /\ props \in [registry : RegistryProps, services : ServicesProps]
    /\ created = FALSE
    /\ thrown = Undefined
    /\ dubboSetting \in DubboSettings
    /\ readyPromise = [state |-> "pending", reason |-> Undefined]
    /\ tickPending = FALSE
    /\ retryNum = 0
    /\ retryTimers = 0
    /\ exhausted = FALSE
    /\ attempts = << >>
    /\ port = 0
    /\ server = 0
    /\ regs = << >>
    /\ unhandled = 0
    /\ registry = [readyCalls |-> 0, announced |-> << >>, closed |-> 0]
    /\ serviceRouter = [i \in Interfaces |-> << >>]
    /\ middlewares = << >>
    /\ sockets = [s \in Sockets |-> "none"]
    /\ hbAcks = [s \in Sockets |-> 0]
    /\ written = [s \in Sockets |-> << >>]
    /\ frames = << >>
    /\ closes = << >>

\* construction, and the life of the instance when there is one
ConstructNext ==
    \/ Constructor
    \/ created /\ LifecycleNext

ConstructSpec == ConstructInit /\ [][ConstructNext]_vars

(***************************************************************************)
(* matchService on its own: the router table and the request are inputs    *)
(***************************************************************************)
\* descriptors registered under one interface
MaxTable == 2

SayOnly == [say |-> Method("echo", FALSE)]
AddOnly == [add |-> Method("echo", FALSE)]

RouterShapes ==
    [group : {"", "g"}, version : {"0.0.0", "1.0.0"}, methods : {SayOnly, AddOnly}]

\* the short name tells the descriptors of a table apart
ShortNameAt(i) == << "s1", "s2", "s3", "s4" >>[i]

RouterLists ==
    UNION {[1..n -> RouterShapes] : n \in 0..MaxTable}

RouterTable(l) ==
    [i \in Interfaces |->
        IF i = "Echo"
        THEN [k \in 1..Len(l) |->
                [shortName |-> ShortNameAt(k), dubboInterface |-> "Echo",
                 methods |-> l[k].methods,
                 methodNames |-> IF l[k].methods = SayOnly THEN << "say" >>
                                 ELSE << "add" >>,
                 group |-> l[k].group, version |-> l[k].version]]
        ELSE << >>]

RouterRequests ==
    { Request(p, m, g, v) : p \in {"Echo", "Nope"}, m \in {"say", "add"},
                            g \in {"", "g", Undefined},
                            v \in {"0.0.0", "1.0.0", "*", Undefined} }

\* a server whose registration has left some table in the router
RouterInit ==
    /\ props = [registry |-> "registry", services |-> "services"]
    /\ created = TRUE
    /\ thrown = Undefined
    /\ dubboSetting = "none"
    /\ readyPromise = [state |-> "resolved", reason |-> Undefined]
    /\ tickPending = FALSE
    /\ retryNum = 0
    /\ retryTimers = 0
    /\ exhausted = FALSE
    /\ attempts = << [pc |-> "listening", port |-> 20880, bound |-> TRUE] >>
    /\ port = 20880
    /\ server = 1
    /\ regs = << "done" >>
    /\ unhandled = 0
    /\ registry = [readyCalls |-> 1, announced |-> << >>, closed |-> 0]
    /\ \E l \in RouterLists : serviceRouter = RouterTable(l)
    /\ middlewares = << >>
    /\ sockets = [s \in Sockets |-> "open"]
    /\ hbAcks = [s \in Sockets |-> 0]
    /\ written = [s \in Sockets |-> << >>]
    /\ frames = << >>
    /\ closes = << >>

\* invokeComposeChainRequest as far as `const service = this.matchService(request)`
Route(s, request) ==
    /\ frames = << >>
    /\ frames' = << [Context(1, s, RequestFrame(request)) EXCEPT
                       !.decoded = TRUE, !.routed = TRUE,
                       !.service = matchService(decodeDubboRequest(RequestFrame(request)))] >>
    /\ UNCHANGED << callerVars, dubboSetting, lifecycleVars, useVars, closes, sockets, hbAcks,
                    written >>

RouterNext == \E s \in Sockets, request \in RouterRequests : Route(s, request)

RouterSpec == RouterInit /\ [][RouterNext]_vars

(***************************************************************************)
(* The server in service: the listener is bound, the services are          *)
(* registered and a client is connected; the caller admits middleware,     *)
(* or fails to, while frames arrive                                        *)
(***************************************************************************)
ServeInit ==
    /\ props = [registry |-> "registry", services |-> "services"]
    /\ created = TRUE
    /\ thrown = Undefined
    /\ dubboSetting \in DubboSettings
    /\ readyPromise = [state |-> "resolved", reason |-> Undefined]
    /\ tickPending = FALSE
    /\ retryNum = 0
    /\ retryTimers = 0
    /\ exhausted = FALSE
    /\ attempts = << [pc |-> "listening", port |-> 20880, bound |-> TRUE] >>
    /\ port = 20880
    /\ server = 1
    /\ regs = << "done" >>
    /\ unhandled = 0
    /\ LET r == registerLoop([i \in Interfaces |-> << >>], << >>, 1) IN
        /\ registry = [readyCalls |-> 1, announced |-> << r.list >>, closed |-> 0]
        /\ serviceRouter = r.router
    /\ middlewares = << >>
    /\ sockets = [s \in Sockets |-> "open"]
    /\ hbAcks = [s \in Sockets |-> 0]
    /\ written = [s \in Sockets |-> << >>]
    /\ frames = << >>
    /\ closes = << >>

ServeNext ==
    \/ \E fn \in MiddlewareKinds : Use(fn)
    \/ UseNotFunction
    \/ \E s \in Sockets, data \in Frames : Deliver(s, data)
    \/ \E id \in 1..Len(frames) : MiddlewareResume(id)
    \/ \E id \in 1..Len(frames) : MethodResume(id)

ServeSpec == ServeInit /\ [][ServeNext]_vars

(***************************************************************************)
(* Properties                                                              *)
(***************************************************************************)
FrameIds == 1..Len(frames)

\* the frame was a request that found a service, and every middleware of its chain
\* awaits next()
Delegated(f) ==
    /\ ~isHeartBeat(f.data)
    /\ f.service # NoService
    /\ \A i \in 1..Len(f.chain) : f.chain[i] \in {"next", "slow"}

MethodOf(f) == f.service.methods[f.data.request.methodName]

\* C1: ready() is resolved only once the listener is bound and the registry has
\* been given the service list.
C1_ReadyOnlyAfterRegistryInformed ==
    readyPromise.state = "resolved" =>
        /\ \E a \in 1..Len(attempts) : attempts[a].pc \in {"listening", "closing", "closed"}
        /\ Len(registry.announced) >= 1

\* C2: on one socket the responses are written in the order in which the frames
\* were handed to the handler.
C2_ResponsesInDecodeOrder ==
    \A s \in Sockets : \A i, j \in 1..Len(written[s]) :
        i < j => written[s][i] < written[s][j]

\* C3: a request that finds its service, through middleware that only delegate,
\* whose method returns a representable value, ends with status OK and that value
\* as the body.
C3_ReturnValueBecomesBody ==
    \A id \in FrameIds :
        LET f == frames[id] IN
        (f.pc = "done" /\ Delegated(f) /\ MethodOf(f).result = "echo") =>
            (f.status = OK /\ f.body = f.data.request.arg)

\* C4: a request whose method throws, or returns a value that is not
\* representable, ends with status OK and the application error as the body, never
\* with SERVER_ERROR.
C4_MethodErrorKeepsStatusOK ==
    \A id \in FrameIds :
        LET f == frames[id] IN
        (f.pc = "done" /\ Delegated(f) /\ MethodOf(f).result # "echo") =>
            /\ f.status = OK
            /\ f.body = IF MethodOf(f).result = "throw" THEN MethodError
                        ELSE NotHessianError

\* C5: a request without a routing match ends with status SERVICE_NOT_FOUND and an
\* error body, and no middleware and no method has run for it; a request for
\* version 9.9.9, which no service has, is one.
C5_NoMatchIsServiceNotFound ==
    \A id \in FrameIds :
        LET f == frames[id] IN
        /\ (f.routed /\ f.service = NoService) =>
              /\ f.status = SERVICE_NOT_FOUND
              /\ f.body = ServiceNotFoundError
              /\ f.entered = << >>
              /\ f.methodCalls = 0
              /\ f.pc = "done"
        /\ (f.decoded /\ f.data.request.version = "9.9.9") => f.status = SERVICE_NOT_FOUND

C5_Witness ==
    \E id \in FrameIds :
        /\ frames[id].routed /\ frames[id].service = NoService
        /\ frames[id].data.request.version = "9.9.9"
        /\ Len(middlewares) >= 1
        /\ Len(registry.announced) >= 1

\* the chain of the frame was left by a middleware that threw before next()
ThrewInMiddleware(f) ==
    \E i \in 1..Len(f.entered) : f.chain[f.entered[i]] = "throw"

\* C6: when a middleware throws before delegating, the request ends with status
\* SERVER_ERROR and that error as the body, its method was not called, and the
\* context is returned and answered.
C6_MiddlewareThrowIsServerError ==
    \A id \in FrameIds :
        LET f == frames[id] IN
        (f.service # NoService /\ ThrewInMiddleware(f)) =>
            /\ f.status = SERVER_ERROR
            /\ f.body = MiddlewareError
            /\ f.methodCalls = 0
            /\ f.pc = "done"
            /\ f.responded

C6_Witness ==
    \E id \in FrameIds :
        /\ frames[id].service # NoService
        /\ ThrewInMiddleware(frames[id])
        /\ Len(frames[id].entered) = 2

\* C7: once the retry budget is used up, ready() is rejected with the "no
\* available port" error, no listen attempt is left or made, and the registry
\* has not been called.
C7_ExhaustionRejectsReady ==
    exhausted =>
        /\ readyPromise = [state |-> "rejected", reason |-> NoPortError]
        /\ Len(attempts) = MaxRetry + 1
        /\ \A a \in 1..Len(attempts) : attempts[a].pc = "failed"
        /\ retryTimers = 0
        /\ registry.readyCalls = 0
        /\ registry.announced = << >>

C7_Witness == exhausted /\ readyPromise.state = "rejected"

\* C8: when the listener is bound and the registry's ready() fails, ready() is
\* rejected, never resolved, and nothing is announced.
C8_RegistryFailureRejectsReady ==
    (\E k \in 1..Len(regs) : regs[k] = "rejected") =>
        /\ readyPromise.state = "rejected"
        /\ registry.announced = << >>

\* nothing the server has started is still outstanding: no timer, no listen
\* attempt, no registry call, no connection, no frame, no 'close' event
Quiescent ==
    /\ ~tickPending
    /\ retryTimers = 0
    /\ \A a \in 1..Len(attempts) : attempts[a].pc \notin {"randomPort", "binding", "closing"}
    /\ \A k \in 1..Len(regs) : regs[k] # "awaitReady"
    /\ \A s \in Sockets : sockets[s] # "open"
    /\ \A id \in FrameIds : frames[id].pc = "done"
    /\ \A c \in 1..Len(closes) : closes[c].state = "pending" => closes[c].on = 0

\* C9: every close() settles: when nothing is outstanding any more, no promise
\* returned by close() is still pending.
C9_CloseSettles ==
    Quiescent => \A c \in 1..Len(closes) : closes[c].state # "pending"

\* C10: a heartbeat frame is acknowledged and does not enter the request
\* pipeline: it is not decoded, not routed, runs no middleware and no method, and
\* nothing is written for it.
C10_HeartbeatOnlyAcknowledged ==
    /\ \A id \in FrameIds :
          LET f == frames[id] IN
          isHeartBeat(f.data) =>
              /\ f.acked /\ f.pc = "done"
              /\ ~f.decoded /\ ~f.routed
              /\ f.entered = << >> /\ f.methodCalls = 0
              /\ ~f.responded
              /\ \A i \in 1..Len(written[f.socket]) : written[f.socket][i] # id
    /\ \A s \in Sockets :
          hbAcks[s] = Cardinality({id \in FrameIds :
                                     frames[id].socket = s /\ isHeartBeat(frames[id].data)})

C10_Witness ==
    \E id \in FrameIds :
        /\ isHeartBeat(frames[id].data)
        /\ Len(registry.announced) >= 1
        /\ Len(middlewares) >= 1

\* the positions in the list of the request's path whose descriptor has the
\* group asked for (or '' when none is asked for), the version v, or any version
\* when v is '*', and the method
Candidates(request, v) ==
    LET list == IF request.path \in DOMAIN serviceRouter
                THEN serviceRouter[request.path] ELSE << >>
        g == IF request.group = Undefined THEN "" ELSE request.group
    IN {i \in 1..Len(list) :
            /\ list[i].group = g
            /\ (v = "*" \/ list[i].version = v)
            /\ request.methodName \in DOMAIN list[i].methods}

\* the service found is the first of the candidates, and none when there is none
FirstOf(f, cands) ==
    LET list == IF f.data.request.path \in DOMAIN serviceRouter
                THEN serviceRouter[f.data.request.path] ELSE << >>
    IN /\ (f.service = NoService) <=> (cands = {})
       /\ f.service # NoService =>
             \E i \in cands : /\ f.service.shortName = list[i].shortName
                              /\ f.service = list[i]
                              /\ \A j \in cands : i <= j

Listened(a) ==
    /\ attempts[a].bound
    /\ attempts[a].pc \in {"listening", "closing", "closed"}
    /\ Len(regs) >= 1

\* C12: once a bind has succeeded, after failures within the budget, ready() is
\* resolved, the retry counter is back at zero, and the port of the server and of
\* every registration URL is the port of the attempt that succeeded.
C12_SucceedingPortIsRecorded ==
    \A a \in 1..Len(attempts) :
        Listened(a) =>
            /\ readyPromise.state = "resolved"
            /\ retryNum = 0
            /\ server = a
            /\ port = attempts[a].port
            /\ \A n \in 1..Len(registry.announced) :
                  \A k \in 1..Len(registry.announced[n]) :
                      registry.announced[n][k].dubboServiceUrl.port = attempts[a].port

C12_Witness ==
    /\ Len(attempts) = 2
    /\ attempts[1].pc = "failed"
    /\ Listened(2)
    /\ attempts[2].port = 20881
    /\ Len(registry.announced) = 1

\* C13: the readiness promise, once settled, keeps its outcome, and after the
\* retry budget is used up no listen attempt is started and no listener is bound.
C13_SettledOnceExhaustionTerminal ==
    [][ /\ readyPromise.state # "pending" => readyPromise' = readyPromise
        /\ exhausted => /\ exhausted'
                        /\ attempts' = attempts
                        /\ retryTimers' = 0
                        /\ readyPromise'.state = "rejected"
        /\ \A a \in 1..Len(attempts') : exhausted' => ~attempts'[a].bound ]_vars

C13_Witness ==
    /\ exhausted
    /\ readyPromise.reason = NoPortError
    /\ Len(closes) = MaxClose
    /\ \A c \in 1..Len(closes) : closes[c].state # "pending"

\* C14: the registry is given the services at most once, with one entry for every
\* configured service, in order, and every service is in the router at most once.
C14_OneCompleteAnnouncement ==
    /\ Len(registry.announced) <= 1
    /\ \A n \in 1..Len(registry.announced) :
          /\ Len(registry.announced[n]) = Len(Services)
          /\ \A k \in 1..Len(Services) :
                /\ registry.announced[n][k].dubboServiceInterface =
                      Services[k].dubboInterface
                /\ registry.announced[n][k].dubboServiceUrl.path =
                      Services[k].dubboInterface
                /\ registry.announced[n][k].dubboServiceUrl.query[3][2] =
                      Services[k].methodNames
    /\ \A k \in 1..Len(Services) :
          Cardinality({<< i, j >> \in Interfaces \X (1..Len(Services)) :
                          /\ j <= Len(serviceRouter[i])
                          /\ serviceRouter[i][j].shortName = Services[k].shortName})
              = (IF registry.announced = << >> THEN 0 ELSE 1)

C14_Witness ==
    /\ Len(registry.announced) = 1
    /\ dubboSetting = "table"
    /\ Len(serviceRouter["Echo"]) = 2

\* C16: for a server whose listener is bound, a second close() resolves too: it
\* does not reject, whether the first close() has resolved or is still pending.
C16_SecondCloseResolves ==
    (Len(closes) >= 1 /\ closes[1].on # 0 /\ ~closes[1].err) =>
        \A c \in 2..Len(closes) : closes[c].state # "rejected"

\* listen attempts that are outstanding: queued, waiting for the port, or waiting
\* for the outcome of the bind
Outstanding ==
    Cardinality({a \in 1..Len(attempts) : attempts[a].pc \in {"randomPort", "binding"}})
        + retryTimers + (IF tickPending THEN 1 ELSE 0)

\* C18: at most one listen attempt is outstanding, none is outstanding once a
\* listener is bound, and at most one listener is ever bound.
C18_OneAttemptAtATime ==
    /\ Outstanding <= 1
    /\ Cardinality({a \in 1..Len(attempts) : attempts[a].bound}) <= 1
    /\ \A a \in 1..Len(attempts) :
          (attempts[a].bound /\ attempts[a].pc # "binding") => Outstanding = 0
    /\ \A a \in 1..Len(attempts) :
          attempts[a].pc \in {"randomPort", "binding"} => a = Len(attempts)

C18_Witness ==
    /\ Len(attempts) = 2
    /\ attempts[1].pc = "failed"
    /\ attempts[2].pc = "binding"
    /\ Outstanding = 1
(***************************************************************************)
(* C15: construction with a missing registry handle, or with a missing or  *)
(* empty service map, throws from the constructor, and then no instance    *)
(* exists, no listen() is queued or made, no port is requested and the     *)
(* registry is never called.                                               *)
(***************************************************************************)
InvalidProps ==
    \/ props.registry = Undefined
    \/ props.services = Undefined
    \/ entries(props.services) = << >>

C15_InvalidPropsThrow ==
    InvalidProps =>
        /\ ~created
        /\ ~tickPending
        /\ attempts = << >>
        /\ port = 0
        /\ registry = [readyCalls |-> 0, announced |-> << >>, closed |-> 0]

(***************************************************************************)
(* C17: every decoded non-heartbeat frame gets exactly one response on its *)
(* socket once its middleware and method have terminated and the socket    *)
(* is still open, whatever failed while handling it; no response is        *)
(* written twice or before the handling is over; handling a frame never    *)
(* changes the state of a socket, so later frames on it are answered too.  *)
(***************************************************************************)
Responses(id) ==
    Cardinality({k \in 1..Len(written[frames[id].socket]) :
                    written[frames[id].socket][k] = id})

Suspended(id) == frames[id].pc \in {"middleware", "method"}

AnsweredOnce ==
    \A id \in 1..Len(frames) :
        ~isHeartBeat(frames[id].data) =>
            /\ frames[id].decoded
            /\ Suspended(id) \/ frames[id].pc = "done"
            /\ Suspended(id) => Responses(id) = 0
            /\ frames[id].pc = "done" =>
                  /\ frames[id].responded
                  /\ Responses(id) <= 1
                  /\ sockets[frames[id].socket] = "open" => Responses(id) = 1

HandlingKeepsSocket == frames' # frames => sockets' = sockets

C17_ExactlyOneResponse == []AnsweredOnce /\ [][HandlingKeepsSocket]_vars

C17_Witness ==
    /\ Len(frames) = 2
    /\ frames[1].socket = frames[2].socket
    /\ sockets[frames[1].socket] = "open"
    /\ ThrewInMiddleware(frames[1])
    /\ frames[1].status = SERVER_ERROR
    /\ frames[2].status = SERVICE_NOT_FOUND
    /\ written[frames[1].socket] = << 1, 2 >>

(***************************************************************************)
(* C19: a routed request runs the middleware admitted so far, in the order *)
(* of admission and each at most once, before the terminal step; the       *)
(* method is called at most once, only after every middleware of the chain *)
(* delegated, and never when one returned or threw without delegating; a   *)
(* request whose whole chain delegated does reach the method. use() with a *)
(* non-function throws and leaves the list as it was.                      *)
(***************************************************************************)
IsPrefix(s, t) == Len(s) <= Len(t) /\ \A i \in 1..Len(s) : s[i] = t[i]

Delegating(f, n) == \A i \in 1..n : f.chain[i] \in {"next", "slow"}

ChainInOrder ==
    \A id \in 1..Len(frames) :
        LET f == frames[id] IN
        (f.routed /\ f.service # NoService) =>
            /\ IsPrefix(f.chain, middlewares)
            /\ Len(f.entered) <= Len(f.chain)
            /\ \A i \in 1..Len(f.entered) : f.entered[i] = i
            /\ Len(f.entered) >= 1 => Delegating(f, Len(f.entered) - 1)
            /\ f.methodCalls <= 1
            /\ f.methodCalls = 1 =>
                  Len(f.entered) = Len(f.chain) /\ Delegating(f, Len(f.chain))
            /\ (f.pc = "done" /\ Delegating(f, Len(f.chain))) => f.methodCalls = 1

UseThrowKeepsList == thrown' # thrown => middlewares' = middlewares

C19_MiddlewareOrderAndShortCircuit == []ChainInOrder /\ [][UseThrowKeepsList]_vars

C19_Witness ==
    /\ thrown = NotFunctionError
    /\ Len(middlewares) = 2
    /\ Len(frames) = 2
    /\ frames[1].chain = << "slow" >>
    /\ frames[1].entered = << 1 >>
    /\ frames[1].methodCalls = 1
    /\ frames[1].pc = "done"
    /\ frames[2].chain = << "slow", "skip" >>
    /\ frames[2].entered = << 1, 2 >>
    /\ frames[2].methodCalls = 0
    /\ frames[2].pc = "done"

(***************************************************************************)
(* C20: once ready() has resolved the router holds every configured        *)
(* service, and a request for a configured interface, one of its methods   *)
(* and its assigned group and version is not answered SERVICE_NOT_FOUND.   *)
(* (A client connects only to a listening server, and the listening        *)
(* callback has resolved ready() by then.)                                 *)
(***************************************************************************)
Routed(svc) ==
    \E j \in 1..Len(serviceRouter[svc.dubboInterface]) :
        serviceRouter[svc.dubboInterface][j] = describe(svc)

NamesConfigured(request) ==
    \E k \in 1..Len(entries(props.services)) :
        LET d == describe(entries(props.services)[k]) IN
        /\ request.path = d.dubboInterface
        /\ request.methodName \in DOMAIN d.methods
        /\ request.group = d.group
        /\ request.version = d.version

\* the answer a client gets
ConfiguredRequestFound ==
    \A id \in 1..Len(frames) :
        (frames[id].routed /\ NamesConfigured(decodeDubboRequest(frames[id].data)))
            => frames[id].status # SERVICE_NOT_FOUND

C20_ReadyImpliesRouted ==
    readyPromise.state = "resolved" =>
        /\ \A k \in 1..Len(entries(props.services)) : Routed(entries(props.services)[k])
        /\ ConfiguredRequestFound

====
